---- MODULE Spec2Model ----
(***************************************************************************)
(* mongo-slow-queries: the fingerprint function (src/src/index.js 205-258) *)
(* and the MongoSlowQueryChecker class (src/src/index.js 1-204,            *)
(* src/unnamed/part_000).                                                  *)
(*                                                                         *)
(* JavaScript values are records tagged by the field t:                    *)
(*   [t |-> "undefined"], [t |-> "null"],                                  *)
(*   [t |-> "scalar", lit |-> l]     a number, boolean or string inside a  *)
(*                                   document, l its source text           *)
(*   [t |-> "array", elems |-> <<v1, ..>>]                                 *)
(*   [t |-> "object", keys |-> <<k1, ..>>, vals |-> <<v1, ..>>]            *)
(*                                   keys in enumeration order, distinct   *)
(*   [t |-> "string", chars |-> <<c1, ..>>]  a string whose characters     *)
(*                                   the code inspects (ns, planSummary)   *)
(*   [t |-> "boolean", b |-> TRUE/FALSE]                                   *)
(***************************************************************************)
EXTENDS Integers, Sequences, FiniteSets, TLC

VARIABLES
    doc, out, fpc,                       \* one call of fingerprint
    d1, d2, out1, out2, ppc,             \* two calls of fingerprint
    variant, dbKind, queryThreshold, pc, sent, reply, commands, completions,
    outcome, calls,                      \* a MongoSlowQueryChecker and its db
    useHistoricalLog, reportAllCollectionScans, store, nextId, watermark, hpc,
    filterWm, cand, prevCand, result, returnedBefore, prevWm, polls,
    lastOutcome                          \* a monitor and the historical log

fpVars == <<doc, out, fpc>>
pairVars == <<d1, d2, out1, out2, ppc>>
getVars == <<variant, dbKind, queryThreshold, pc, sent, reply, commands,
             completions, outcome, calls>>
monVars == <<useHistoricalLog, reportAllCollectionScans, store, nextId,
             watermark, hpc, filterWm, cand, prevCand, result, returnedBefore,
             prevWm, polls, lastOutcome>>
vars == <<fpVars, pairVars, getVars, monVars>>

----------------------------------------------------------------------------
(* JavaScript values *)

Undefined == [t |-> "undefined"]
Null == [t |-> "null"]
Scalar(l) == [t |-> "scalar", lit |-> l]
ArrOf(es) == [t |-> "array", elems |-> es]
ObjOf(ks, vs) == [t |-> "object", keys |-> ks, vals |-> vs]
Str(cs) == [t |-> "string", chars |-> cs]
Bool(b) == [t |-> "boolean", b |-> b]

\* The literals whose JavaScript truth value is false: 0, false and ''.
FalsyLiterals == {"0", "false", "''"}

\* Boolean(val), the test _.compact and the && and ?: operators apply.
Truthy(val) ==
    CASE val.t \in {"undefined", "null"} -> FALSE
      [] val.t = "scalar" -> val.lit \notin FalsyLiterals
      [] val.t = "string" -> Len(val.chars) > 0
      [] val.t = "boolean" -> val.b
      [] OTHER -> TRUE

\* underscore's type tests, on the values a JSON-like document holds.
isArray(val) == val.t = "array"
isObject(val) == val.t \in {"object", "array"}
isUndefined(val) == val.t = "undefined"
isNull(val) == val.t = "null"

\* _.keys(obj): [] unless obj is an object; an array's keys are its indices.
keys(obj) ==
    IF ~isObject(obj) THEN <<>>
    ELSE IF isArray(obj) THEN [i \in 1..Len(obj.elems) |-> ToString(i - 1)]
    ELSE obj.keys

\* obj[key], undefined when obj has no such property.
Prop(obj, key) ==
    IF obj.t = "object" /\ \E j \in 1..Len(obj.keys) : obj.keys[j] = key
    THEN obj.vals[CHOOSE j \in 1..Len(obj.keys) : obj.keys[j] = key]
    ELSE IF obj.t = "array" /\ \E j \in 1..Len(obj.elems) : ToString(j - 1) = key
    THEN obj.elems[CHOOSE j \in 1..Len(obj.elems) : ToString(j - 1) = key]
    ELSE Undefined

\* _.size of an array.
size(ra) == Len(ra)

\* _.compact(ra): the truthy elements of ra.
compact(ra) == SelectSeq(ra, Truthy)

----------------------------------------------------------------------------
(* fingerprint.js *)

RECURSIVE fingerprint(_), arrayFingerprint(_), fingerprintLoop(_, _, _, _),
          arrayLoop(_, _, _)

\* Line 215: the array holds an element that _.compact drops.
hasFalsy(ra) == size(ra) # size(compact(ra))

\* Line 223 with the separator also written after the last element.
arraySeparatorAlways(n, i) == n > i

\* Line 223: a separator follows every element but the last.
arraySeparator(n, i) == n > i + 1

\* The loop of arrayFingerprint from index i (0-based) on, fprint so far.
arrayLoop(ra, i, fprint) ==
    IF ~(i < Len(ra)) THEN fprint
    ELSE LET val == ra[i + 1]
             f1 == IF isObject(val) THEN fprint \o fingerprint(val) ELSE fprint
             f2 == IF arraySeparator(size(ra), i) THEN f1 \o ", " ELSE f1
         IN arrayLoop(ra, i + 1, f2)

arrayFingerprint(ra) ==
    IF hasFalsy(ra) THEN "[ null ]"
    ELSE arrayLoop(ra, 0, "[ ") \o " ]"

\* Lines 246-248: the suffix of a key whose value is neither array nor object.
addition(val) ==
    IF isUndefined(val) THEN ": undefined"
    ELSE IF isNull(val) THEN ": null"
    ELSE ""

\* Line 252 with the separator also written after the last key.
keySeparatorAlways(n, i) == n > i

\* Line 252: a separator follows every key but the last.
keySeparator(n, i) == n > i + 1

\* The loop of fingerprint from index i (0-based) on, fprint so far.
fingerprintLoop(obj, ks, i, fprint) ==
    IF ~(i < Len(ks)) THEN fprint
    ELSE LET key == ks[i + 1]
             val == Prop(obj, key)
             f1 == IF isArray(val)
                   THEN fprint \o key \o ": " \o arrayFingerprint(val.elems)
                   ELSE IF isObject(val)
                   THEN fprint \o key \o ": " \o fingerprint(val)
                   ELSE fprint \o key \o addition(val)
             f2 == IF keySeparator(size(ks), i) THEN f1 \o ", " ELSE f1
         IN fingerprintLoop(obj, ks, i + 1, f2)

fingerprint(obj) == fingerprintLoop(obj, keys(obj), 0, "{ ") \o " }"

----------------------------------------------------------------------------
(* The documents fingerprint is applied to *)

MaxLen == 3
MaxKeys == 2

Literals == {"0", "1", "false", "''", "'x'"}
Keys == {"a", "b", "c"}

SeqsUpTo(S, n) == UNION {[1..k -> S] : k \in 0..n}

\* Sequences of distinct keys, the enumeration orders an object can have.
KeySeqs(n) == {ks \in SeqsUpTo(Keys, n) :
                 \A i, j \in 1..Len(ks) : i # j => ks[i] # ks[j]}

Leaf == {Scalar(l) : l \in Literals} \cup {Null, Undefined}

EmptyObj == ObjOf(<<>>, <<>>)

\* The elements arrays are built from: every leaf, objects and nested arrays.
Elem == Leaf \cup
        {EmptyObj,
         ObjOf(<<"b">>, <<Scalar("1")>>),
         ObjOf(<<"c">>, <<Null>>),
         ArrOf(<<>>),
         ArrOf(<<Scalar("1")>>)}

Arrays == {ArrOf(es) : es \in SeqsUpTo(Elem, MaxLen)}

\* The values the keys of a several-key object take.
ObjVals == Leaf \cup
           {EmptyObj,
            ObjOf(<<"b">>, <<Scalar("0")>>),
            ArrOf(<<>>),
            ArrOf(<<Null>>),
            ArrOf(<<Scalar("'x'"), Scalar("1")>>)}

Objects == UNION {{ObjOf(ks, vs) : vs \in [1..Len(ks) -> ObjVals]} :
                    ks \in KeySeqs(MaxKeys)}

\* The documents of spec/fingerprintSpec.js.
TestDocs ==
    {ObjOf(<<"_id">>, <<Scalar("1")>>),
     ObjOf(<<"_id", "$or">>,
           <<Scalar("'x'"),
             ArrOf(<<ObjOf(<<"createdAt">>,
                           <<ObjOf(<<"$gt">>, <<Scalar("1")>>)>>)>>)>>),
     ObjOf(<<"_id", "$or">>,
           <<Scalar("'x'"),
             ArrOf(<<ObjOf(<<"createdAt">>,
                           <<ObjOf(<<"otherIds">>,
                                   <<ArrOf(<<Scalar("'x'")>>)>>)>>)>>)>>),
     ObjOf(<<"find", "filter", "sort", "projection", "limit">>,
           <<Scalar("'x'"),
             ObjOf(<<"$or">>,
                   <<ArrOf(<<ObjOf(<<"_id">>,
                                   <<ObjOf(<<"$regex", "$options">>,
                                           <<Scalar("'x'"), Scalar("'x'")>>)>>),
                             ObjOf(<<"name">>,
                                   <<ObjOf(<<"$regex", "$options">>,
                                           <<Scalar("'x'"), Scalar("'x'")>>)>>),
                             ObjOf(<<"email">>,
                                   <<ObjOf(<<"$regex", "$options">>,
                                           <<Scalar("'x'"), Scalar("'x'")>>)>>)>>)>>),
             ObjOf(<<"createdAt">>, <<Scalar("1")>>),
             ObjOf(<<"_id", "name", "email">>,
                   <<Scalar("1"), Scalar("1"), Scalar("1")>>),
             Scalar("1")>>),
     ObjOf(<<"_id", "groupIds">>, <<Scalar("'x'"), ArrOf(<<Null>>)>>),
     ObjOf(<<"_id", "groupIds">>, <<Scalar("'x'"), Null>>),
     ObjOf(<<"_id", "groupIds">>, <<Scalar("'x'"), Undefined>>)}

Docs == Objects
        \cup {ObjOf(<<"a">>, <<v>>) : v \in Arrays \cup Objects}
        \cup TestDocs

----------------------------------------------------------------------------
(* One call of fingerprint *)

InitFp == doc \in Docs /\ out = "" /\ fpc = "start"

\* fingerprint(doc) returns.
Fingerprint ==
    /\ fpc = "start"
    /\ out' = fingerprint(doc)
    /\ fpc' = "done"
    /\ UNCHANGED doc
    /\ UNCHANGED <<pairVars, getVars, monVars>>

----------------------------------------------------------------------------
(* MongoSlowQueryChecker: index.js 1-123 (the async class), part_000 (the    *)
(* callback class) and index.js 125-204 (the callback class before isIndexed) *)

\* const INDEXED_PLANS = ['IXSCAN', 'IDHACK'];
IXSCAN == <<"I", "X", "S", "C", "A", "N">>
IDHACK == <<"I", "D", "H", "A", "C", "K">>
COLLSCAN == <<"C", "O", "L", "L", "S", "C", "A", "N">>
INDEXED_PLANS == {IXSCAN, IDHACK}

\* '(no collection)'
NoCollection ==
    <<"(", "n", "o", " ", "c", "o", "l", "l", "e", "c", "t", "i", "o", "n", ")">>

\* s.indexOf(p): the first 0-based index where p occurs in s, or -1.
indexOf(s, p) ==
    LET at == {i \in 0..(Len(s) - Len(p)) : SubSeq(s, i + 1, i + Len(p)) = p}
    IN IF at = {} THEN -1 ELSE CHOOSE i \in at : \A j \in at : i <= j

\* s.replace(/.*\./, ''): the greedy match runs from the start of s to its
\* last '.'; without a '.' nothing is replaced.
stripPrefix(s) ==
    LET dots == {i \in 1..Len(s) : s[i] = "."}
    IN IF dots = {} THEN s
       ELSE SubSeq(s, (CHOOSE i \in dots : \A j \in dots : j <= i) + 1, Len(s))

\* op.ns ? op.ns.replace(/.*\./, '') : '(no collection)'
collection(op) ==
    IF Truthy(op.ns) THEN Str(stripPrefix(op.ns.chars)) ELSE Str(NoCollection)

\* isIndexed(op): INDEXED_PLANS.some((p) => op.planSummary.indexOf(p) !== -1)
isIndexed(op) == \E p \in INDEXED_PLANS : indexOf(op.planSummary.chars, p) # -1

\* op.planSummary && this.isIndexed(op): a falsy planSummary is the value.
indexed(op) ==
    IF Truthy(op.planSummary) THEN Bool(isIndexed(op)) ELSE op.planSummary

\* query.planSummary && (query.planSummary.indexOf('IXSCAN') !== -1)
indexedLegacy(op) ==
    IF Truthy(op.planSummary)
    THEN Bool(indexOf(op.planSummary.chars, IXSCAN) # -1)
    ELSE op.planSummary

\* The object _.map builds for one op. Only the async class copies appName;
\* reading it from the other classes' objects gives undefined.
processOp(v, op) ==
    [query |-> op,
     fingerprint |-> fingerprint(op.query),
     collection |-> collection(op),
     indexed |-> IF v = "legacy" THEN indexedLegacy(op) ELSE indexed(op),
     waitingForLock |-> op.waitingForLock,
     appName |-> IF v = "async" THEN op.appName ELSE Undefined]

\* ops && ops.inprog
inprogOf(ops) == IF Truthy(ops) THEN ops.inprog ELSE ops

\* processOps(ops), and the body of the callback in the callback classes.
processOps(v, ops) ==
    LET inprog == inprogOf(ops)
    IN IF ~Truthy(inprog) \/ Len(inprog.elems) = 0 THEN <<>>
       ELSE [i \in 1..Len(inprog.elems) |-> processOp(v, inprog.elems[i])]

----------------------------------------------------------------------------
(* The operations the database reports, and its replies *)

MaxOps == 2
MaxCalls == 2

Op(q, c, n, p, w, a) ==
    [query |-> q, command |-> c, ns |-> n, planSummary |-> p,
     waitingForLock |-> w, appName |-> a]

QueryInputs == {Undefined, ObjOf(<<"a">>, <<Scalar("1")>>)}

\* Command documents: a find with its filter, a count with its query, none.
CommandInputs ==
    {Undefined,
     ObjOf(<<"find", "filter">>,
           <<Scalar("'x'"), ObjOf(<<"b">>, <<Scalar("1")>>)>>),
     ObjOf(<<"count", "query">>,
           <<Scalar("'x'"), ObjOf(<<"c">>, <<Null>>)>>)}

NsInputs == {Undefined, Str(<<"d", ".", "s", ".", "u">>)}

PlanInputs ==
    {Undefined, Str(<<>>), Str(COLLSCAN), Str(IDHACK),
     Str(IXSCAN \o <<" ", "{", " ", "a", ":", " ", "1", " ", "}">>)}

OpInputs ==
    {Op(q, c, n, p, Bool(FALSE), Undefined) :
        q \in QueryInputs, c \in CommandInputs, n \in NsInputs, p \in PlanInputs}
    \cup
    {Op(Undefined, Undefined, Undefined, Undefined, w, a) :
        w \in {Undefined, Bool(TRUE)}, a \in {Undefined, Str(<<"a", "p", "p">>)}}

\* What the command answers: nothing, null, a document without inprog, or a
\* document whose inprog lists up to MaxOps operations.
OpsReplies ==
    {Undefined, Null, [t |-> "object", inprog |-> Undefined]}
    \cup {[t |-> "object", inprog |-> ArrOf(l)] : l \in SeqsUpTo(OpInputs, MaxOps)}

\* The classes, and for the async class the three kinds of db reference that
\* get tells apart (lines 60, 73, 77).
Variants == {"async", "callback", "legacy"}
DbKinds == {"mongojs", "adminCommand", "runCommand"}

NoReply == [failed |-> FALSE, ops |-> Undefined]
NoOutcome == [kind |-> "none", list |-> <<>>]

\* this.queryThreshold = 5, unless options.queryThreshold is truthy.
DefaultThreshold == 5
ThresholdOptions == {0, 2}

\* The state after the constructor; options.db is given (line 35).
InitGet ==
    /\ variant \in Variants
    /\ dbKind \in IF variant = "async" THEN DbKinds ELSE {"mongojs"}
    /\ \E o \in ThresholdOptions :
         queryThreshold = IF o # 0 THEN o ELSE DefaultThreshold
    /\ pc = "idle"
    /\ sent = 0
    /\ reply = NoReply
    /\ commands = 0
    /\ completions = 0
    /\ outcome = NoOutcome
    /\ calls = 0

\* get() up to the command it sends: one runCommand or adminCommand, whatever
\* the class and the db reference, with secs_running: {$gte: queryThreshold}
\* (sent). commands and completions count what this call has sent and how
\* often it has completed.
Get ==
    /\ pc \in {"idle", "done"}
    /\ calls < MaxCalls
    /\ calls' = calls + 1
    /\ sent' = queryThreshold
    /\ commands' = 1
    /\ completions' = 0
    /\ outcome' = NoOutcome
    /\ reply' = NoReply
    /\ pc' = "awaiting"
    /\ UNCHANGED <<variant, dbKind, queryThreshold>>
    /\ UNCHANGED <<fpVars, pairVars, monVars>>

\* What a failed command completes get with, in the async class: the deferred
\* promise, adminCommand's or runCommand's promise rejects, and so does get.
errAsync == [kind |-> "rejected", list |-> <<>>]

\* What a failed command completes get with, in the callback classes: err is
\* never read, ops is undefined, and done(null, []) is called.
errCallback == [kind |-> "resolved", list |-> processOps("callback", Undefined)]

\* The command succeeds with ops: get returns processOps(ops), or the
\* callback calls done(null, processed).
ReplyOk ==
    /\ pc = "awaiting"
    /\ \E ops \in OpsReplies :
         /\ reply' = [failed |-> FALSE, ops |-> ops]
         /\ outcome' = [kind |-> "resolved", list |-> processOps(variant, ops)]
    /\ completions' = completions + 1
    /\ pc' = "done"
    /\ UNCHANGED <<variant, dbKind, queryThreshold, sent, commands, calls>>
    /\ UNCHANGED <<fpVars, pairVars, monVars>>

\* The command fails.
ReplyErr ==
    /\ pc = "awaiting"
    /\ reply' = [failed |-> TRUE, ops |-> Undefined]
    /\ outcome' = IF variant = "async" THEN errAsync ELSE errCallback
    /\ completions' = completions + 1
    /\ pc' = "done"
    /\ UNCHANGED <<variant, dbKind, queryThreshold, sent, commands, calls>>
    /\ UNCHANGED <<fpVars, pairVars, monVars>>

----------------------------------------------------------------------------
(* Two calls of fingerprint, on documents to compare *)

PairElem == {Scalar("0"), Scalar("1"), Null,
             ObjOf(<<"b">>, <<Scalar("1")>>), ObjOf(<<"c">>, <<Scalar("1")>>)}

PairVals == {ArrOf(es) : es \in SeqsUpTo(PairElem, 2)}
            \cup PairElem
            \cup {Undefined, Scalar("''"), Scalar("false"),
                  ObjOf(<<"b", "c">>, <<Scalar("0"), Null>>)}

PairDocs == {ObjOf(<<"a">>, <<v>>) : v \in PairVals}
            \cup {ObjOf(<<"a", "b">>, <<v, w>>) :
                    v \in {Scalar("0"), Scalar("1")}, w \in PairElem}

InitPair ==
    /\ d1 \in PairDocs
    /\ d2 \in PairDocs
    /\ out1 = ""
    /\ out2 = ""
    /\ ppc = "start"

\* fingerprint(d1) returns.
FingerprintFirst ==
    /\ ppc = "start"
    /\ out1' = fingerprint(d1)
    /\ ppc' = "one"
    /\ UNCHANGED <<d1, d2, out2>>
    /\ UNCHANGED <<fpVars, getVars, monVars>>

\* fingerprint(d2) returns.
FingerprintSecond ==
    /\ ppc = "one"
    /\ out2' = fingerprint(d2)
    /\ ppc' = "done"
    /\ UNCHANGED <<d1, d2, out1>>
    /\ UNCHANGED <<fpVars, getVars, monVars>>

----------------------------------------------------------------------------
(* The historical-log path of the monitor. The classes under src/ have only *)
(* the live path; this part follows spec.md sections 3, 4.2 and 5.          *)

MaxRecords == 2
MaxTs == 2
MaxPolls == 3

\* The watermark before any historical poll has returned records.
Unset == 0

\* What a log entry is to the filter: over the threshold, under it, under it
\* with a full collection scan, or an entry of the log's own namespace.
RecordKinds == {"slow", "fast", "scan", "own"}

MaxOf(S) == CHOOSE m \in S : \A x \in S : x <= m

\* The filter without the watermark bound: (duration >= threshold) or (a full
\* collection scan, with reportAllCollectionScans), not the log's namespace.
Candidates(log, reportAll) ==
    {r \in log : r.kind = "slow" \/ (reportAll /\ r.kind = "scan")}

\* The watermark bound with >= for >.
sinceInclusive(r, wm) == wm = Unset \/ r.ts >= wm

\* The watermark bound: timestamp > watermark, when a watermark is set.
since(r, wm) == wm = Unset \/ r.ts > wm

\* The watermark after a poll, were an empty result to reset it.
advanceOrReset(wm, res) ==
    IF res = {} THEN Unset ELSE MaxOf({r.ts : r \in res})

\* The watermark after a poll that returned res: the maximum timestamp of
\* res, and unchanged when res is empty.
advance(wm, res) ==
    IF res = {} THEN wm ELSE MaxOf({r.ts : r \in res})

InitMonitor ==
    /\ useHistoricalLog \in BOOLEAN
    /\ reportAllCollectionScans \in BOOLEAN
    /\ store = {}
    /\ nextId = 1
    /\ watermark = Unset
    /\ hpc = "idle"
    /\ filterWm = Unset
    /\ cand = {}
    /\ prevCand = {}
    /\ result = {}
    /\ returnedBefore = {}
    /\ prevWm = Unset
    /\ polls = 0
    /\ lastOutcome = "none"

\* The database records an entry in its log.
Arrive ==
    /\ nextId <= MaxRecords
    /\ \E ts \in 1..MaxTs, k \in RecordKinds :
         store' = store \cup {[id |-> nextId, ts |-> ts, kind |-> k]}
    /\ nextId' = nextId + 1
    /\ UNCHANGED <<useHistoricalLog, reportAllCollectionScans, watermark, hpc,
                   filterWm, cand, prevCand, result, returnedBefore, prevWm,
                   polls, lastOutcome>>
    /\ UNCHANGED <<fpVars, pairVars, getVars>>

\* The log, a capped collection, drops its oldest entry.
Evict ==
    /\ store # {}
    /\ store' = store \ {CHOOSE r \in store : \A o \in store : r.id <= o.id}
    /\ UNCHANGED <<useHistoricalLog, reportAllCollectionScans, nextId,
                   watermark, hpc, filterWm, cand, prevCand, result,
                   returnedBefore, prevWm, polls, lastOutcome>>
    /\ UNCHANGED <<fpVars, pairVars, getVars>>

\* retrieveSlowOperations() up to its query: the filter takes the watermark.
PollStart ==
    /\ hpc = "idle"
    /\ polls < MaxPolls
    /\ hpc' = "awaiting"
    /\ filterWm' = watermark
    /\ prevWm' = watermark
    /\ UNCHANGED <<useHistoricalLog, reportAllCollectionScans, store, nextId,
                   watermark, cand, prevCand, result, returnedBefore, polls,
                   lastOutcome>>
    /\ UNCHANGED <<fpVars, pairVars, getVars>>

\* The historical query answers: the result is returned and the watermark
\* advanced. cand and prevCand keep the candidate sets of the last two polls,
\* returnedBefore what earlier polls returned.
PollReplyHistorical ==
    /\ hpc = "awaiting"
    /\ useHistoricalLog
    /\ LET c == Candidates(store, reportAllCollectionScans)
           res == {r \in c : since(r, filterWm)}
       IN /\ result' = res
          /\ watermark' = advance(watermark, res)
          /\ cand' = c
    /\ prevCand' = cand
    /\ returnedBefore' = returnedBefore \cup result
    /\ polls' = polls + 1
    /\ lastOutcome' = "ok"
    /\ hpc' = "idle"
    /\ UNCHANGED <<useHistoricalLog, reportAllCollectionScans, store, nextId,
                   filterWm, prevWm>>
    /\ UNCHANGED <<fpVars, pairVars, getVars>>

\* The live path answers: the operations over the threshold, no watermark.
PollReplyLive ==
    /\ hpc = "awaiting"
    /\ ~useHistoricalLog
    /\ result' = {r \in store : r.kind \in {"slow", "own"}}
    /\ returnedBefore' = returnedBefore \cup result
    /\ polls' = polls + 1
    /\ lastOutcome' = "ok"
    /\ hpc' = "idle"
    /\ UNCHANGED <<useHistoricalLog, reportAllCollectionScans, store, nextId,
                   watermark, filterWm, cand, prevCand, prevWm>>
    /\ UNCHANGED <<fpVars, pairVars, getVars>>

\* The database call fails: the retrieval fails, nothing is returned.
PollFail ==
    /\ hpc = "awaiting"
    /\ result' = {}
    /\ returnedBefore' = returnedBefore \cup result
    /\ lastOutcome' = "failed"
    /\ hpc' = "idle"
    /\ UNCHANGED <<useHistoricalLog, reportAllCollectionScans, store, nextId,
                   watermark, filterWm, cand, prevCand, prevWm, polls>>
    /\ UNCHANGED <<fpVars, pairVars, getVars>>

----------------------------------------------------------------------------
(* Specifications *)

\* The values of the variables a specification does not use.
RestFp == doc = EmptyObj /\ out = "" /\ fpc = "done"
RestPair == d1 = EmptyObj /\ d2 = EmptyObj /\ out1 = "" /\ out2 = "" /\ ppc = "done"
RestGet ==
    /\ variant = "async" /\ dbKind = "mongojs" /\ pc = "done"
    /\ queryThreshold = DefaultThreshold /\ sent = 0
    /\ reply = NoReply /\ commands = 0 /\ completions = 0
    /\ outcome = NoOutcome /\ calls = MaxCalls
RestMonitor ==
    /\ InitMonitor
    /\ useHistoricalLog = FALSE
    /\ reportAllCollectionScans = FALSE

\* A MongoSlowQueryChecker polled by its caller.
Init == InitGet /\ RestFp /\ RestPair /\ RestMonitor
Next == Get \/ ReplyOk \/ ReplyErr
Spec == Init /\ [][Next]_vars

\* fingerprint applied to one document.
InitFingerprint == InitFp /\ RestPair /\ RestGet /\ RestMonitor
NextFingerprint == Fingerprint
SpecFingerprint == InitFingerprint /\ [][NextFingerprint]_vars

\* fingerprint applied to two documents.
InitTwo == InitPair /\ RestFp /\ RestGet /\ RestMonitor
NextTwo == FingerprintFirst \/ FingerprintSecond
SpecPair == InitTwo /\ [][NextTwo]_vars

\* A monitor polled by its caller, one retrieval in flight at a time.
InitHistorical == InitMonitor /\ RestFp /\ RestPair /\ RestGet
NextHistorical ==
    Arrive \/ Evict \/ PollStart \/ PollReplyHistorical \/ PollReplyLive
      \/ PollFail
SpecMonitor == InitHistorical /\ [][NextHistorical]_vars

----------------------------------------------------------------------------
(* Claims about fingerprint *)

RECURSIVE SameShape(_, _), DiffersInKeys(_, _), ExpectedObject(_),
          JoinTokens(_), Commas(_)

\* v1 and v2 have the same keys in the same order, the same nesting and at
\* every position the same class: object, array of the same length, null,
\* undefined or non-null scalar.
SameShape(v1, v2) ==
    /\ v1.t = v2.t
    /\ CASE v1.t = "object" ->
              /\ v1.keys = v2.keys
              /\ \A i \in 1..Len(v1.vals) : SameShape(v1.vals[i], v2.vals[i])
         [] v1.t = "array" ->
              /\ Len(v1.elems) = Len(v2.elems)
              /\ \A i \in 1..Len(v1.elems) : SameShape(v1.elems[i], v2.elems[i])
         [] OTHER -> TRUE

KeySet(obj) == {obj.keys[i] : i \in 1..Len(obj.keys)}

\* v1 and v2 differ in which keys are present at some position: at the top,
\* inside a nested object, or inside an object that is an element of an array.
DiffersInKeys(v1, v2) ==
    CASE v1.t = "object" /\ v2.t = "object" ->
           \/ KeySet(v1) # KeySet(v2)
           \/ /\ v1.keys = v2.keys
              /\ \E i \in 1..Len(v1.vals) : DiffersInKeys(v1.vals[i], v2.vals[i])
      [] v1.t = "array" /\ v2.t = "array" ->
           /\ Len(v1.elems) = Len(v2.elems)
           /\ \E i \in 1..Len(v1.elems) : DiffersInKeys(v1.elems[i], v2.elems[i])
      [] OTHER -> FALSE

\* C1: fingerprint is blind to literal scalar values: two documents with the
\* same keys in the same order, the same nesting and the same class at every
\* position (0, false and '' being non-null scalars like any other, also as
\* elements of arrays) have the same fingerprint.
C1_ValueBlind ==
    (ppc = "done" /\ SameShape(d1, d2)) => out1 = out2

\* The tokens ts joined by ', '.
JoinTokens(ts) ==
    IF Len(ts) = 0 THEN ""
    ELSE IF Len(ts) = 1 THEN ts[1]
    ELSE ts[1] \o ", " \o JoinTokens(Tail(ts))

\* The token of a key: bare for a scalar, 'key: null', 'key: undefined', and
\* 'key: ' with the fingerprint of an object or an array.
KeyToken(key, val) ==
    CASE val.t = "null" -> key \o ": null"
      [] val.t = "undefined" -> key \o ": undefined"
      [] val.t = "object" -> key \o ": " \o ExpectedObject(val)
      [] val.t = "array" -> key \o ": " \o arrayFingerprint(val.elems)
      [] OTHER -> key

ExpectedObject(obj) ==
    "{ " \o JoinTokens([i \in 1..Len(obj.keys) |->
                          KeyToken(obj.keys[i], obj.vals[i])]) \o " }"

\* C2: for an object, fingerprint returns '{ ' + the tokens of its keys in
\* enumeration order joined by ', ' + ' }': the bare key for a scalar value,
\* 'key: null', 'key: undefined', 'key: ' + the nested fingerprint for an
\* object or array; '{  }' for the empty object, no trailing separator.
C2_ObjectFormat ==
    fpc = "done" => out = ExpectedObject(doc)

\* C2 happens: an object with a null key and a nested object, whose one key
\* has a scalar value.
C2_Witness ==
    /\ fpc = "done"
    /\ doc = ObjOf(<<"a", "b">>, <<Null, ObjOf(<<"b">>, <<Scalar("0")>>)>>)
    /\ out = "{ a: null, b: { b } }"

\* doc is { k: ra } for an array ra.
IsArrayDoc == Len(doc.keys) = 1 /\ isArray(doc.vals[1])
TheArray == doc.vals[1].elems
Wrapped(fp) == "{ " \o doc.keys[1] \o ": " \o fp \o " }"

\* C3: an array fingerprints to '[ null ]' if and only if it is non-empty and
\* every element is null; an array with a non-null element (a null next to
\* an object, an array holding 0, false or '') is never collapsed. An
\* undefined element is counted with the nulls here, in the claim's favour.
C3_NullArrayIff ==
    (fpc = "done" /\ IsArrayDoc) =>
        ((out = Wrapped("[ null ]")) <=>
            (/\ Len(TheArray) > 0
             /\ \A i \in 1..Len(TheArray) :
                    isNull(TheArray[i]) \/ isUndefined(TheArray[i])))

AllScalars == \A i \in 1..Len(TheArray) : TheArray[i].t = "scalar"

Commas(n) == IF n <= 0 THEN "" ELSE ", " \o Commas(n - 1)

C5_KeyPresenceSeparates ==
    (ppc = "done" /\ DiffersInKeys(d1, d2)) => out1 # out2

----------------------------------------------------------------------------
(* Claims about MongoSlowQueryChecker *)

\* C6: when the command get sends fails, get completes exactly once, with the
\* failure (a rejected promise, a non-null err), never with a list, and
\* sends no second command.
C6_FailureSurfaced ==
    (pc = "done" /\ reply.failed) =>
        (completions = 1 /\ outcome.kind = "rejected" /\ commands = 1)

\* planSummary is a string that contains 'IXSCAN' or 'IDHACK'.
HasIndexMarker(op) ==
    /\ op.planSummary.t = "string"
    /\ \E p \in INDEXED_PLANS : indexOf(op.planSummary.chars, p) # -1

\* C7: of every returned operation, indexed is the boolean true if and only
\* if planSummary is a string containing 'IXSCAN' or 'IDHACK', and the
\* boolean false otherwise, also when planSummary is absent or ''. Stated of
\* the classes that have isIndexed.
C7_IndexedBoolean ==
    (pc = "done" /\ variant # "legacy") =>
        \A i \in 1..Len(outcome.list) :
            outcome.list[i].indexed = Bool(HasIndexMarker(outcome.list[i].query))

Present(v) == v.t # "undefined"

\* The first present field among query, command.q, command.filter,
\* command.query and command.pipeline; undefined when none is.
FirstPresent(op) ==
    LET fields == <<op.query, Prop(op.command, "q"), Prop(op.command, "filter"),
                    Prop(op.command, "query"), Prop(op.command, "pipeline")>>
        at == {i \in 1..Len(fields) : Present(fields[i])}
    IN IF at = {} THEN Undefined
       ELSE fields[CHOOSE i \in at : \A j \in at : i <= j]

\* C9: the fingerprint of a returned operation is that of the first present
\* field among the plain query, the update command's query, the command's
\* filter, query and pipeline; '{  }' only when all are absent.
C9_QueryShapeOrder ==
    pc = "done" =>
        \A i \in 1..Len(outcome.list) :
            outcome.list[i].fingerprint =
                fingerprint(FirstPresent(outcome.list[i].query))

----------------------------------------------------------------------------
(* Claims about the historical-log path *)

NewArrivals == cand \ prevCand

\* The last two polls succeeded on the historical path, and the second one's
\* candidates are the first one's plus records with greater timestamps.
SupersetPolls ==
    /\ useHistoricalLog
    /\ hpc = "idle"
    /\ lastOutcome = "ok"
    /\ polls >= 2
    /\ prevCand \subseteq cand
    /\ \A n \in NewArrivals : \A o \in prevCand : n.ts > o.ts

\* C8: when the second of two sequential historical polls has the first
\* one's candidates plus newly-arrived records with strictly greater
\* timestamps, it returns only newly-arrived records (all of them when the
\* two polls are the monitor's first two), and none that an earlier call
\* returned.
C8_HistoricalDedup ==
    SupersetPolls =>
        /\ result \subseteq NewArrivals
        /\ polls = 2 => result = NewArrivals
        /\ result \cap returnedBefore = {}

\* C8 happens: the first poll returned a record, the second the new one.
C8_Witness ==
    /\ SupersetPolls
    /\ polls = 2
    /\ prevCand # {}
    /\ NewArrivals # {}
    /\ returnedBefore = prevCand
    /\ result = NewArrivals

\* After a successful historical poll the watermark is the maximum timestamp
\* of a non-empty result, and what it was before the call after an empty one;
\* before the first such poll it is unset.
WatermarkAfterPoll ==
    /\ polls = 0 => watermark = Unset
    /\ watermark >= prevWm
    /\ (useHistoricalLog /\ hpc = "idle" /\ lastOutcome = "ok") =>
           IF result # {} THEN watermark = MaxOf({r.ts : r \in result})
           ELSE watermark = prevWm

\* No step lowers the watermark, and only the end of a successful historical
\* poll changes it.
WatermarkStep ==
    /\ watermark' >= watermark
    /\ watermark' # watermark =>
           (useHistoricalLog /\ hpc = "awaiting" /\ hpc' = "idle"
              /\ lastOutcome' = "ok")

\* C10: the watermark never decreases: unset at construction, the maximum
\* timestamp of the result after a poll that returns records, unchanged by a
\* poll that returns none, and changed by nothing but the end of a successful
\* historical poll.
C10_WatermarkMonotone == []WatermarkAfterPoll /\ [][WatermarkStep]_vars

\* C10 happens: a poll set the watermark and a later poll returned nothing.
C10_Witness ==
    /\ useHistoricalLog
    /\ hpc = "idle"
    /\ lastOutcome = "ok"
    /\ polls >= 2
    /\ result = {}
    /\ watermark # Unset
    /\ watermark = prevWm

====
